---- MODULE Spec2Model ----
(***************************************************************************)
(* wrangler: incremental shader build cache (src/src/lib.rs).              *)
(*                                                                         *)
(* The model is the `run` pipeline as a state machine: find_shaders,       *)
(* Record::try_load, check_against_record, compile (one step per           *)
(* candidate), the write/log loop (one step per outcome), Record::write    *)
(* and the final error decision.  The filesystem (source files with their  *)
(* modification times, the output tree, the record file) is part of the    *)
(* state; other processes may touch, delete or create source files at any  *)
(* moment, also while a run is in progress.  Runs follow one another        *)
(* without bound.                                                          *)
(***************************************************************************)
EXTENDS Integers, Sequences, FiniteSets, TLC

\* ---------------------------------------------------------------- bounds
MaxTime == 2        \* modification times are 1..MaxTime
MaxEnvSteps == 1    \* filesystem changes made by other processes in one behaviour
MaxTreeSize == 2    \* files in a source tree that may hold dot files

\* ---------------------------------------------------------------- values
Times == 1..MaxTime
Absent == 0         \* mtime of a path that is not on disk

\* shaderc::ShaderKind; Geometry stands for every kind kind_ext rejects.
ShaderKind == {"Vertex", "Fragment", "Compute", "Geometry"}

\* Source paths below the search root, in the order glob yields them
\* (alphabetical).  A path is a file name split at its last dot: Path(stem,
\* ext) is the file <stem>.<ext>, so Path("", "vert") is the file `.vert`
\* and Path(".vert", "vert") the file `.vert.vert`; glob's `*` also matches
\* an empty stem and a leading dot.
Path(stem, ext) == [stem |-> stem, ext |-> ext]
AllPaths == << Path("", "vert"), Path(".vert", "vert"), Path("a", "frag"), Path("a", "vert") >>
Paths == {AllPaths[n] : n \in 1..Len(AllPaths)}

\* The files of the source trees that runs follow one another on.
Sources == {Path("a", "frag"), Path("a", "vert")}

\* search_root values a caller may pass: a plain directory and one that
\* makes the glob pattern malformed (an unclosed character class).
SearchRoots == {"shaders", "sha[ders"}

Ok(v) == [tag |-> "Ok", val |-> v]
Err(e) == [tag |-> "Err", err |-> e]
IsOk(r) == r.tag = "Ok"
IsErr(r) == r.tag = "Err"

\* enum Error; `errors` is the payload of BatchError, empty otherwise.
Error(kind) == [kind |-> kind, errors |-> << >>]
BatchError(errors) == [kind |-> "BatchError", errors |-> errors]

\* struct Instructions (output_root and record_path are fixed paths).
Instructions(kinds, root, terminates) ==
    [to_compile |-> kinds, search_root |-> root,
     compilation_error_terminates |-> terminates]

\* The `to_compile` lists a caller passes: no kind, one kind, a kind with no
\* file, a kind repeated, two kinds with a repetition, and a kind kind_ext
\* rejects alone, first and last.
KindLists ==
    { << >>, << "Vertex" >>, << "Fragment" >>, << "Compute" >>, << "Geometry" >>,
      << "Vertex", "Vertex" >>, << "Vertex", "Fragment", "Vertex" >>,
      << "Vertex", "Geometry" >>, << "Geometry", "Vertex" >> }

\* struct CompilationCandidate
CompilationCandidate(location, kind) == [location |-> location, shader_kind |-> kind]

\* ------------------------------------------------------- pure functions
RECURSIVE DedupFrom(_, _, _)
DedupFrom(kinds, n, out) ==
    IF n > Len(kinds) THEN out
    ELSE IF \E m \in 1..Len(out) : out[m] = kinds[n]
         THEN DedupFrom(kinds, n + 1, out)
         ELSE DedupFrom(kinds, n + 1, Append(out, kinds[n]))

\* Mutant of deduplicate_kinds: every occurrence is kept.
deduplicate_kinds_keep_all(kinds) == kinds

deduplicate_kinds(kinds) == DedupFrom(kinds, 1, << >>)

kind_ext(kind) ==
    CASE kind = "Vertex" -> Ok("vert")
      [] kind = "Fragment" -> Ok("frag")
      [] kind = "Compute" -> Ok("comp")
      [] OTHER -> Err(Error("UnsupportedKind"))

\* glob::glob(&pattern): Err on a malformed pattern.
GlobPatternOk(search_root) == search_root = "shaders"

\* The paths on disk with extension ext, in glob's order.
GlobMatches(mtime, ext) ==
    SelectSeq(AllPaths, LAMBDA p : mtime[p] # Absent /\ p.ext = ext)

\* find_shaders_of_kind; `broken` is the set of kinds whose directory walk
\* hits a GlobError (an unreadable directory entry).
find_shaders_of_kind(kind, search_root, mtime, broken) ==
    LET e == kind_ext(kind) IN
    IF IsErr(e) THEN e
    ELSE IF ~GlobPatternOk(search_root) THEN Err(Error("BadGlobPattern"))
    ELSE IF kind \in broken THEN Err(Error("GlobTraversal"))
    ELSE LET found == GlobMatches(mtime, e.val) IN
         Ok([n \in 1..Len(found) |-> CompilationCandidate(found[n], kind)])

RECURSIVE FindFrom(_, _, _, _, _, _)
FindFrom(kinds, n, shaders, search_root, mtime, broken) ==
    IF n > Len(kinds) THEN Ok(shaders)
    ELSE LET r == find_shaders_of_kind(kinds[n], search_root, mtime, broken) IN
         IF IsErr(r) THEN r
         ELSE FindFrom(kinds, n + 1, shaders \o r.val, search_root, mtime, broken)

\* Mutant of find_shaders: a kind whose search fails is passed over.
RECURSIVE FindLenientFrom(_, _, _, _, _, _)
FindLenientFrom(kinds, n, shaders, search_root, mtime, broken) ==
    IF n > Len(kinds) THEN Ok(shaders)
    ELSE LET r == find_shaders_of_kind(kinds[n], search_root, mtime, broken) IN
         FindLenientFrom(kinds, n + 1, IF IsErr(r) THEN shaders ELSE shaders \o r.val,
                         search_root, mtime, broken)

find_shaders_lenient(instr, mtime, broken) ==
    FindLenientFrom(deduplicate_kinds(instr.to_compile), 1, << >>,
                    instr.search_root, mtime, broken)

find_shaders(instr, mtime, broken) ==
    FindFrom(deduplicate_kinds(instr.to_compile), 1, << >>,
             instr.search_root, mtime, broken)

\* struct Record: modified_times is a map keyed by path.
EmptyRecord == [modified_times |-> << >>]
HasEntry(rec, p) == p \in DOMAIN rec.modified_times
\* Mutant of Insert: the other entries are dropped.
Insert_alone(map, p, t) == [q \in {p} |-> t]

Insert(map, p, t) == [q \in (DOMAIN map) \cup {p} |-> IF q = p THEN t ELSE map[q]]

\* rmp_serde: the record on disk is a list of (path, seconds) entries.
Encode(rec) == {<< p, rec.modified_times[p] >> : p \in DOMAIN rec.modified_times}
\* Mutant of Decode: the times read back are truncated to even values.
Decode_truncated(bytes) ==
    [modified_times |->
        [p \in {b[1] : b \in bytes} |->
            LET t == CHOOSE u \in Times : << p, u >> \in bytes IN t - (t % 2)]]

Decode(bytes) ==
    [modified_times |->
        [p \in {b[1] : b \in bytes} |-> CHOOSE t \in Times : << p, t >> \in bytes]]

\* fs::metadata(path)?.modified()
Metadata(mtime, p) == IF mtime[p] = Absent THEN Err(Error("Io")) ELSE Ok(mtime[p])

\* Mutant of Stale: only a newer file is stale.
Stale_newer(last_modified, file_modified) == last_modified < file_modified

\* check_against_record, line 151: last_modified != file_modified
Stale(last_modified, file_modified) == last_modified # file_modified

RECURSIVE CheckFrom(_, _, _, _, _)
CheckFrom(candidates, n, needs_compile, rec, mtime) ==
    IF n > Len(candidates) THEN Ok(needs_compile)
    ELSE LET candidate == candidates[n] IN
         IF HasEntry(rec, candidate.location)
         THEN LET file_modified == Metadata(mtime, candidate.location) IN
              IF IsErr(file_modified) THEN file_modified
              ELSE IF Stale(rec.modified_times[candidate.location], file_modified.val)
                   THEN CheckFrom(candidates, n + 1, Append(needs_compile, candidate), rec, mtime)
                   ELSE CheckFrom(candidates, n + 1, needs_compile, rec, mtime)
         ELSE CheckFrom(candidates, n + 1, Append(needs_compile, candidate), rec, mtime)

check_against_record(candidates, rec, mtime) == CheckFrom(candidates, 1, << >>, rec, mtime)

\* Record::try_load; `opens` says whether File::open succeeds on an existing file.
try_load(file, opens) ==
    IF file.state # "absent"
    THEN IF ~opens THEN Err(Error("Io"))
         ELSE IF file.state = "valid" THEN Ok(Decode(file.bytes))
         ELSE Ok(EmptyRecord)
    ELSE Ok(EmptyRecord)

\* Record::log
log(rec, file, mtime) ==
    LET modified == Metadata(mtime, file) IN
    IF IsErr(modified) THEN modified
    ELSE Ok([modified_times |-> Insert(rec.modified_times, file, modified.val)])

\* struct CompileOutput; the artifact is named after the source it was compiled from.
CompileOutput(location, kind) ==
    [location |-> location, shader_kind |-> kind, artifact |-> location]

\* The body of compile's loop for one candidate.  `outcome` is what the
\* filesystem and shaderc do: the source cannot be read, shaderc rejects
\* it, or shaderc compiles it.
CompileOutcomes == {"read_fails", "compile_fails", "compiles"}

compile_one(candidate, outcome) ==
    CASE outcome = "read_fails" -> Err(Error("Io"))
      [] outcome = "compile_fails" -> Err(Error("Compilation"))
      [] OTHER -> Ok(CompileOutput(candidate.location, candidate.shader_kind))

\* Mutant of push_result: only successes are collected.
push_result_ok_only(out, r) == IF IsErr(r) THEN out ELSE Append(out, r)

\* compile, line 193: out.push(r)
push_result(out, r) == Append(out, r)

\* Path::file_stem: a file name that begins with its only dot has no
\* extension and is its own stem.
FileStem(p) == IF p.stem = "" THEN "." \o p.ext ELSE p.stem

\* PathBuf::set_extension: the extension is put after the file stem.
SetExtension(p, extension) == Path(FileStem(p), extension)

\* write_output's destination: the path below the output root with the
\* extension set to spv_<kind extension>.
Dest(out) == SetExtension(out.location, "spv_" \o kind_ext(out.shader_kind).val)

\* write_output; `ok` says whether create_dir_all, File::create and the
\* write all succeed.  The result is the file written: its path below the
\* output root and its contents.
write_output(out, ok) ==
    LET extension == kind_ext(out.shader_kind) IN
    IF IsErr(extension) THEN extension
    ELSE IF ~ok THEN Err(Error("Io"))
    ELSE Ok([dest |-> Dest(out), artifact |-> out.artifact])

\* Mutant of record_write: a fresh record is written instead of the one in memory.
record_write_fresh(rec, ok) ==
    IF ~ok THEN Err(Error("Io"))
    ELSE Ok([state |-> "valid", bytes |-> {}])

\* Record::write; `ok` says whether create_dir_all and File::create succeed.
\* The result is the record file afterwards.
record_write(rec, ok) ==
    IF ~ok THEN Err(Error("Io"))
    ELSE Ok([state |-> "valid", bytes |-> Encode(rec)])

\* The decisions of `run` and its callees, one operator each.
\* Mutant of compiler_new_unwrap: compile goes on without a compiler.
compiler_new_ignored(ok) == "compile"

\* compile, line 169: shaderc::Compiler::new().unwrap(); the position run
\* is at afterwards.  unwrap panics when the compiler cannot be initialised.
compiler_new_unwrap(ok) == IF ok THEN "compile" ELSE "panicked"

\* Mutant of NothingToCompile: run goes on with an empty list.
NothingToCompile_never(stale) == FALSE

\* run, line 216
NothingToCompile(stale) == Len(stale) = 0

\* Mutant of CollectErrors: only the first error is kept.
CollectErrors_first(results) ==
    LET failed == SelectSeq(results, IsErr) IN
    IF Len(failed) = 0 THEN << >> ELSE << failed[1].err >>

\* run, lines 232-235
CollectErrors(results) ==
    LET failed == SelectSeq(results, IsErr) IN [n \in 1..Len(failed) |-> failed[n].err]

\* Mutant of Terminates: the policy flag is ignored.
Terminates_any(errors, instr) == Len(errors) # 0

\* run, line 236
Terminates(errors, instr) == Len(errors) # 0 /\ instr.compilation_error_terminates

\* Mutant of write_and_log: the source is logged before its output is written.
write_and_log_log_first(rec, res, mtime, ok) ==
    IF IsErr(res)
    THEN [record |-> rec, result |-> Ok("unit"), from |-> "",
          written |-> << >>, logged |-> << >>]
    ELSE LET l == log(rec, res.val.location, mtime) IN
         IF IsErr(l)
         THEN [record |-> rec, result |-> l, from |-> "log",
               written |-> << >>, logged |-> << >>]
         ELSE LET w == write_output(res.val, ok) IN
              IF IsErr(w)
              THEN [record |-> l.val, result |-> w, from |-> "write_output",
                    written |-> << >>, logged |-> << res.val.location >>]
              ELSE [record |-> l.val, result |-> Ok("unit"), from |-> "",
                    written |-> << w.val >>, logged |-> << res.val.location >>]

\* Mutant of write_and_log: a candidate whose output cannot be written is
\* passed over like one that failed to compile.
write_and_log_skip_unwritten(rec, res, mtime, ok) ==
    IF IsErr(res) \/ ~ok
    THEN [record |-> rec, result |-> Ok("unit"), from |-> "",
          written |-> << >>, logged |-> << >>]
    ELSE LET w == write_output(res.val, ok) IN
         LET l == log(rec, res.val.location, mtime) IN
         IF IsErr(l)
         THEN [record |-> rec, result |-> l, from |-> "log",
               written |-> << w.val >>, logged |-> << >>]
         ELSE [record |-> l.val, result |-> Ok("unit"), from |-> "",
               written |-> << w.val >>, logged |-> << res.val.location >>]

\* run, lines 221-229: the body of the loop over compilation_results for one
\* outcome `res`.  A failed outcome is passed over; a successful one is
\* written and then logged, and a failure of either returns from run.
\* `written` and `logged` are the files written and the paths logged by it.
write_and_log(rec, res, mtime, ok) ==
    IF IsErr(res)
    THEN [record |-> rec, result |-> Ok("unit"), from |-> "",
          written |-> << >>, logged |-> << >>]
    ELSE LET w == write_output(res.val, ok) IN
         IF IsErr(w)
         THEN [record |-> rec, result |-> w, from |-> "write_output",
               written |-> << >>, logged |-> << >>]
         ELSE LET l == log(rec, res.val.location, mtime) IN
              IF IsErr(l)
              THEN [record |-> rec, result |-> l, from |-> "log",
                    written |-> << w.val >>, logged |-> << >>]
              ELSE [record |-> l.val, result |-> Ok("unit"), from |-> "",
                    written |-> << w.val >>, logged |-> << res.val.location >>]

\* Mutant of persist_and_decide: the policy is decided before the record is written.
persist_and_decide_first(rec, file, results, instr, ok) ==
    LET errors == CollectErrors(results) IN
    IF Terminates(errors, instr)
    THEN [record_file |-> file, result |-> Err(BatchError(errors)), from |-> "end",
          writes |-> 0]
    ELSE LET w == record_write(rec, ok) IN
         IF IsErr(w)
         THEN [record_file |-> file, result |-> w, from |-> "record_write", writes |-> 0]
         ELSE [record_file |-> w.val, result |-> Ok("unit"), from |-> "end", writes |-> 1]

\* run, lines 231-239: record.write(&instructions)?, then the errors are
\* collected and the policy decides between BatchError and Ok.  `writes`
\* is the number of times the record file was written.
persist_and_decide(rec, file, results, instr, ok) ==
    LET w == record_write(rec, ok) IN
    IF IsErr(w)
    THEN [record_file |-> file, result |-> w, from |-> "record_write", writes |-> 0]
    ELSE LET errors == CollectErrors(results) IN
         [record_file |-> w.val,
          result |-> IF Terminates(errors, instr) THEN Err(BatchError(errors))
                     ELSE Ok("unit"),
          from |-> "end", writes |-> 1]

\* ------------------------------------------------------------------ state
VARIABLES
    instructions,         \* the Instructions every run is called with
    mtime,                \* source tree: path -> modification time, Absent if not on disk
    record_file,          \* the file at record_path: [state, bytes]
    pc,                   \* position of `run`
    compile_candidates,   \* run: result of find_shaders
    record,               \* run: the Record in memory
    to_compile,           \* run: result of check_against_record
    compilation_results,  \* compile: `out`, then run's compilation_results
    idx,                  \* index of the loop in progress (compile, then write/log)
    result,               \* what `run` returned
    returned_from,        \* the step `run` returned from
    trace,                \* what this run did so far (observation only)
    prev,                 \* the previous run: its result, whether it returned from the end of
                          \* run, how many candidates were stale, which failed to compile,
                          \* whether the sources changed during it (observation only)
    hist                  \* changes made by other processes (observation only)

vars == << instructions, mtime, record_file, pc, compile_candidates, record,
           to_compile, compilation_results, idx, result, returned_from, trace, prev, hist >>

NoResult == [tag |-> "None"]

\* What a run has done: the compiler initialisations and whether one
\* failed, the sources read and the modification time each had when it was
\* read, the compiler invocations, the files written below the
\* output root, whether writing one failed, the paths logged, and the
\* accesses to the record file.  The output tree is only ever written, so it is kept
\* as the list of the files each run writes to it.
NoTrace ==
    [attempted |-> << >>, read_at |-> << >>, invoked |-> << >>, written |-> << >>,
     write_failed |-> FALSE, init_failed |-> FALSE, logged |-> << >>, record_reads |-> 0, record_writes |-> 0, compiler_inits |-> 0]

NoPrev == [valid |-> FALSE]

\* Changes other processes made to the source tree.  in_run: one happened
\* during the current run; after_run: one happened since the current run
\* returned; before_run: one happened between the previous run's return and
\* the start of the current run.
\* steps counts the changes made.
NoHist == [steps |-> 0, in_run |-> FALSE, after_run |-> FALSE, before_run |-> FALSE]

Init ==
    /\ instructions \in {Instructions(k, r, t) :
                            k \in KindLists, r \in SearchRoots, t \in BOOLEAN}
    /\ mtime \in {[p \in Paths |-> IF p \in present THEN t ELSE Absent] :
                    present \in SUBSET Sources, t \in Times}
    /\ record_file \in {[state |-> "absent", bytes |-> {}], [state |-> "corrupt", bytes |-> {}]}
    /\ pc = "idle"
    /\ compile_candidates = << >>
    /\ record = EmptyRecord
    /\ to_compile = << >>
    /\ compilation_results = << >>
    /\ idx = 0
    /\ result = NoResult
    /\ returned_from = ""
    /\ trace = NoTrace
    /\ prev = NoPrev
    /\ hist = NoHist

\* ---------------------------------------------------------------- actions
Running == pc \notin {"idle", "done", "panicked"}

\* `run` returns r; `from` names the statement it returned from.
Return(r, from) ==
    /\ pc' = "done"
    /\ result' = r
    /\ returned_from' = from

\* A caller invokes run(instructions).
StartRun ==
    /\ ~Running
    /\ pc' = "find_shaders"
    /\ compile_candidates' = << >>
    /\ record' = EmptyRecord
    /\ to_compile' = << >>
    /\ compilation_results' = << >>
    /\ idx' = 0
    /\ result' = NoResult
    /\ returned_from' = ""
    /\ trace' = NoTrace
    /\ prev' = IF pc = "idle" THEN NoPrev
               ELSE [valid |-> TRUE, result |-> result.tag,
                     ended |-> (returned_from = "end"),
                     stale |-> Len(to_compile),
                     failed |-> {to_compile[n].location : n \in
                                   {m \in 1..Len(compilation_results) :
                                      IsErr(compilation_results[m])}},
                     changed |-> hist.in_run]
    /\ hist' = [hist EXCEPT !.in_run = FALSE, !.after_run = FALSE,
                             !.before_run = hist.after_run]
    /\ UNCHANGED << instructions, mtime, record_file >>

\* run, line 212: let compile_candidates = find_shaders(&instructions)?;
FindShaders ==
    /\ pc = "find_shaders"
    /\ \E broken \in {{}} \cup {{k} : k \in ShaderKind} :
         LET r == find_shaders(instructions, mtime, broken) IN
         IF IsErr(r)
         THEN /\ Return(r, "find_shaders")
              /\ UNCHANGED compile_candidates
         ELSE /\ compile_candidates' = r.val
              /\ pc' = "try_load"
              /\ UNCHANGED << result, returned_from >>
    /\ UNCHANGED << instructions, mtime, record_file, record, to_compile,
                    compilation_results, idx, trace, prev, hist >>

\* run, line 213: let mut record = Record::try_load(&instructions)?;
TryLoad ==
    /\ pc = "try_load"
    /\ \E opens \in BOOLEAN :
         LET r == try_load(record_file, opens) IN
         /\ trace' = [trace EXCEPT !.record_reads =
                         IF record_file.state # "absent" /\ opens THEN @ + 1 ELSE @]
         /\ IF IsErr(r)
            THEN /\ Return(r, "try_load")
                 /\ UNCHANGED record
            ELSE /\ record' = r.val
                 /\ pc' = "check_against_record"
                 /\ UNCHANGED << result, returned_from >>
    /\ UNCHANGED << instructions, mtime, record_file, compile_candidates,
                    to_compile, compilation_results, idx, prev, hist >>

\* run, lines 214-218: the staleness filter and the early return.
CheckAgainstRecord ==
    /\ pc = "check_against_record"
    /\ LET r == check_against_record(compile_candidates, record, mtime) IN
       IF IsErr(r)
       THEN /\ Return(r, "check_against_record")
            /\ UNCHANGED to_compile
       ELSE /\ to_compile' = r.val
            /\ IF NothingToCompile(r.val)
               THEN Return(Ok("unit"), "nothing_to_compile")
               ELSE /\ pc' = "compiler_new"
                    /\ UNCHANGED << result, returned_from >>
    /\ UNCHANGED << instructions, mtime, record_file, compile_candidates,
                    record, compilation_results, idx, trace, prev, hist >>

\* compile, line 169: shaderc::Compiler::new().unwrap() panics when shaderc
\* cannot be initialised.
CompilerNew ==
    /\ pc = "compiler_new"
    /\ \E ok \in BOOLEAN :
         /\ pc' = compiler_new_unwrap(ok)
         /\ trace' = [trace EXCEPT !.compiler_inits = IF ok THEN @ + 1 ELSE @,
                                    !.init_failed = ~ok]
         /\ IF pc' = "panicked"
            THEN /\ returned_from' = "compiler_new"
                 /\ UNCHANGED idx
            ELSE /\ idx' = 1
                 /\ UNCHANGED returned_from
    /\ UNCHANGED << instructions, mtime, record_file, compile_candidates,
                    record, to_compile, compilation_results, result, prev, hist >>

\* compile, lines 171-194: one iteration of the loop; after the last one
\* compile returns `out` to run (line 219).
CompileOne ==
    /\ pc = "compile"
    /\ idx <= Len(to_compile)
    /\ \E outcome \in CompileOutcomes :
         LET candidate == to_compile[idx] IN
         /\ mtime[candidate.location] = Absent => outcome = "read_fails"
         /\ compilation_results' = push_result(compilation_results, compile_one(candidate, outcome))
         /\ trace' = [trace EXCEPT
                         !.attempted = Append(@, candidate.location),
                         !.read_at = Append(@, mtime[candidate.location]),
                         !.invoked = IF outcome = "read_fails" THEN @
                                     ELSE Append(@, candidate.location)]
    /\ IF idx = Len(to_compile)
       THEN pc' = "write_outputs" /\ idx' = 1
       ELSE pc' = pc /\ idx' = idx + 1
    /\ UNCHANGED << instructions, mtime, record_file, compile_candidates,
                    record, to_compile, result, returned_from, prev, hist >>

\* run, lines 220-230: one iteration of the loop over compilation_results.
WriteOne ==
    /\ pc = "write_outputs"
    /\ idx <= Len(compilation_results)
    /\ \E ok \in BOOLEAN :
         LET s == write_and_log(record, compilation_results[idx], mtime, ok) IN
         /\ record' = s.record
         /\ trace' = [trace EXCEPT !.written = @ \o s.written, !.logged = @ \o s.logged,
                                    !.write_failed = IsOk(compilation_results[idx]) /\ ~ok]
         /\ IF IsErr(s.result)
            THEN /\ Return(s.result, s.from)
                 /\ UNCHANGED idx
            ELSE /\ IF idx = Len(compilation_results)
                    THEN pc' = "record_write" /\ idx' = idx
                    ELSE pc' = pc /\ idx' = idx + 1
                 /\ UNCHANGED << result, returned_from >>
    /\ UNCHANGED << instructions, mtime, record_file, compile_candidates, to_compile,
                    compilation_results, prev, hist >>

\* run, lines 231-239: persist the record, then decide what to return.
RecordWrite ==
    /\ pc = "record_write"
    /\ \E ok \in BOOLEAN :
         LET s == persist_and_decide(record, record_file, compilation_results,
                                     instructions, ok) IN
         /\ record_file' = s.record_file
         /\ trace' = [trace EXCEPT !.record_writes = @ + s.writes]
         /\ Return(s.result, s.from)
    /\ UNCHANGED << instructions, mtime, compile_candidates, record, to_compile,
                    compilation_results, idx, prev, hist >>

\* Other processes: a source file is modified (its mtime moves to any other
\* value, newer or older), deleted or created.
Changed ==
    hist' = [hist EXCEPT !.steps = @ + 1,
                         !.in_run = @ \/ Running,
                         !.after_run = @ \/ ~Running]

EnvStep ==
    /\ pc # "idle"
    /\ hist.steps < MaxEnvSteps
    /\ Changed
    /\ UNCHANGED << instructions, record_file, pc, compile_candidates, record,
                    to_compile, compilation_results, idx, result, returned_from, trace, prev >>

Touch ==
    /\ EnvStep
    /\ \E p \in Paths, t \in Times :
         /\ mtime[p] # Absent
         /\ t # mtime[p]
         /\ mtime' = [mtime EXCEPT ![p] = t]

Delete ==
    /\ EnvStep
    /\ \E p \in Paths :
         /\ mtime[p] # Absent
         /\ mtime' = [mtime EXCEPT ![p] = Absent]

Create ==
    /\ EnvStep
    /\ \E p \in Sources, t \in Times :
         /\ mtime[p] = Absent
         /\ mtime' = [mtime EXCEPT ![p] = t]

Next ==
    \/ StartRun
    \/ FindShaders
    \/ TryLoad
    \/ CheckAgainstRecord
    \/ CompilerNew
    \/ CompileOne
    \/ WriteOne
    \/ RecordWrite
    \/ Touch
    \/ Delete
    \/ Create

Spec == Init /\ [][Next]_vars

\* Runs on a source tree that may also hold files whose name begins with a
\* dot; no other process changes the tree.
InitDotFiles ==
    /\ instructions \in {Instructions(k, "shaders", t) :
                            k \in {<< "Vertex" >>, << "Fragment", "Vertex" >>}, t \in BOOLEAN}
    /\ mtime \in {[p \in Paths |-> IF p \in present THEN 1 ELSE Absent] :
                    present \in {q \in SUBSET Paths : Cardinality(q) <= MaxTreeSize}}
    /\ record_file = [state |-> "absent", bytes |-> {}]
    /\ pc = "idle"
    /\ compile_candidates = << >>
    /\ record = EmptyRecord
    /\ to_compile = << >>
    /\ compilation_results = << >>
    /\ idx = 0
    /\ result = NoResult
    /\ returned_from = ""
    /\ trace = NoTrace
    /\ prev = NoPrev
    /\ hist = NoHist

NextDotFiles ==
    \/ StartRun
    \/ FindShaders
    \/ TryLoad
    \/ CheckAgainstRecord
    \/ CompilerNew
    \/ CompileOne
    \/ WriteOne
    \/ RecordWrite

SpecDotFiles == InitDotFiles /\ [][NextDotFiles]_vars

\* ------------------------------------------------------------------ claims
\* Positions of `run` after check_against_record has returned Ok with a
\* non-empty list.
PastFilter ==
    \/ pc \in {"compiler_new", "compile", "write_outputs", "record_write", "panicked"}
    \/ pc = "done" /\ returned_from \in {"write_output", "log", "record_write", "end"}

\* Positions of `run` after compile has returned.
PastCompile ==
    \/ pc \in {"write_outputs", "record_write"}
    \/ pc = "done" /\ returned_from \in {"write_output", "log", "record_write", "end"}

\* The record file holds the entry the run has in memory for p.
Persisted(p) ==
    /\ record_file.state = "valid"
    /\ HasEntry(record, p)
    /\ << p, record.modified_times[p] >> \in record_file.bytes

\* Every candidate of this run that compiled has its entry in the record file.
AllSuccessesPersisted ==
    \A n \in 1..Len(compilation_results) :
        IsOk(compilation_results[n]) => Persisted(to_compile[n].location)

FailedIndexes == {n \in 1..Len(compilation_results) : IsErr(compilation_results[n])}

\* No other process changed the source tree since the previous run returned.
QuietSincePrevReturned == ~hist.before_run /\ ~hist.in_run

\* No other process changed the source tree since the previous run started.
QuietSincePrevStarted == prev.valid /\ ~prev.changed /\ QuietSincePrevReturned

\* C1: when a run fails because write_output fails, the record file holds an
\* entry for every candidate written and logged earlier in that run.
C1_LoggedPersistedAfterWriteFailure ==
    (pc = "done" /\ returned_from = "write_output") =>
        \A n \in 1..Len(trace.logged) : Persisted(trace.logged[n])

C4_FilterReturnsExactlyTheStale ==
    [][(pc = "check_against_record" /\ pc' # pc /\ returned_from' # "check_against_record") =>
          to_compile' = SelectSeq(compile_candidates,
                            LAMBDA c : \/ c.location \notin DOMAIN record.modified_times
                                       \/ record.modified_times[c.location] < mtime[c.location]
                                       \/ record.modified_times[c.location] > mtime[c.location])]_vars

\* The filter has just returned a candidate whose file is older than
\* recorded and has passed over a candidate whose time equals the recorded one.
C4_Witness ==
    /\ pc = "compiler_new"
    /\ ~hist.in_run
    /\ Len(compile_candidates) = 2
    /\ Len(to_compile) = 1
    /\ HasEntry(record, to_compile[1].location)
    /\ mtime[to_compile[1].location] # Absent
    /\ mtime[to_compile[1].location] < record.modified_times[to_compile[1].location]
    /\ \E n \in 1..2 :
         /\ compile_candidates[n] # to_compile[1]
         /\ HasEntry(record, compile_candidates[n].location)
         /\ record.modified_times[compile_candidates[n].location]
              = mtime[compile_candidates[n].location]

\* C5 as stated: a run that follows another with no source change in
\* between invokes the compiler on nothing.
C5_SecondRunInvokesNothing ==
    (prev.valid /\ QuietSincePrevReturned) => Len(trace.invoked) = 0

\* C5 amended: if a run returns Ok with no candidate having failed to
\* compile, and no source file is created, modified or deleted from the
\* start of that run on, the next run finds nothing stale and invokes the
\* compiler on nothing.
C5_SecondRunAfterCleanRunInvokesNothing ==
    (QuietSincePrevStarted /\ prev.result = "Ok" /\ prev.failed = {}) =>
        /\ Len(trace.invoked) = 0
        /\ Len(trace.attempted) = 0
        /\ Len(to_compile) = 0
        /\ ~PastFilter

C5_Witness ==
    /\ QuietSincePrevStarted
    /\ prev.result = "Ok"
    /\ prev.failed = {}
    /\ prev.stale = 2
    /\ pc = "done"
    /\ returned_from = "nothing_to_compile"
    /\ Len(compile_candidates) = 2

\* C6 as stated: if exactly one stale candidate fails to compile in a
\* best-effort run, the run returns Ok and a following run with no source
\* change compiles that candidate and no other.
C6_PartialFailure ==
    (prev.valid /\ ~instructions.compilation_error_terminates
        /\ Cardinality(prev.failed) = 1) =>
        /\ prev.result = "Ok"
        /\ (QuietSincePrevStarted /\ PastFilter) =>
              /\ Len(to_compile) = 1
              /\ to_compile[1].location \in prev.failed

\* C6 amended: if exactly one stale candidate fails to compile in a
\* best-effort run and that run is not ended by an I/O error (output write,
\* log, record write), the run returns Ok, and a following run with no
\* source change since the first one started finds exactly that candidate
\* stale and reads and compiles no other.
C6_PartialFailureWhenEndReached ==
    (prev.valid /\ ~instructions.compilation_error_terminates
        /\ Cardinality(prev.failed) = 1 /\ prev.ended) =>
        /\ prev.result = "Ok"
        /\ QuietSincePrevStarted =>
              /\ \A n \in 1..Len(trace.attempted) : trace.attempted[n] \in prev.failed
              /\ \A n \in 1..Len(trace.invoked) : trace.invoked[n] \in prev.failed
              /\ PastFilter => (Len(to_compile) = 1 /\ to_compile[1].location \in prev.failed)

C6_Witness ==
    /\ QuietSincePrevStarted
    /\ ~instructions.compilation_error_terminates
    /\ prev.stale = 2
    /\ Cardinality(prev.failed) = 1
    /\ prev.ended
    /\ prev.result = "Ok"
    /\ pc = "done"
    /\ returned_from = "end"
    /\ Len(trace.attempted) = 1
    /\ trace.attempted[1] \in prev.failed

\* C7: a run that gets past the output writes and the record write returns
\* BatchError exactly when the policy is fatal and a candidate failed to
\* compile, with one error per failed candidate; otherwise it returns Ok.
C7_BatchErrorExactlyWhenFatalAndFailed ==
    (pc = "done" /\ returned_from = "end") =>
        IF instructions.compilation_error_terminates /\ FailedIndexes # {}
        THEN /\ IsErr(result)
             /\ result.err.kind = "BatchError"
             /\ Len(result.err.errors) = Cardinality(FailedIndexes)
             /\ \A k \in {"Io", "Compilation"} :
                  Cardinality({n \in 1..Len(result.err.errors) : result.err.errors[n].kind = k})
                    = Cardinality({n \in FailedIndexes : compilation_results[n].err.kind = k})
        ELSE result = Ok("unit")

C7_Witness ==
    /\ pc = "done"
    /\ returned_from = "end"
    /\ IsErr(result)
    /\ result.err.kind = "BatchError"
    /\ Len(result.err.errors) = 2
    /\ result.err.errors[1].kind # result.err.errors[2].kind

\* C8: compile returns one outcome per stale candidate, the i-th for the
\* i-th candidate, and every candidate is attempted whatever happened to
\* the ones before it.
C8_OneOutcomePerCandidateInOrder ==
    /\ Len(compilation_results) = Len(trace.attempted)
    /\ \A n \in 1..Len(trace.attempted) : trace.attempted[n] = to_compile[n].location
    /\ \A n \in 1..Len(compilation_results) :
         IsOk(compilation_results[n]) =>
            /\ compilation_results[n].val.location = to_compile[n].location
            /\ compilation_results[n].val.shader_kind = to_compile[n].shader_kind
    /\ PastCompile => Len(compilation_results) = Len(to_compile)

C8_Witness ==
    /\ pc = "write_outputs"
    /\ idx = 1
    /\ Len(to_compile) = 2
    /\ IsErr(compilation_results[1])
    /\ IsOk(compilation_results[2])
    /\ trace.attempted = << to_compile[1].location, to_compile[2].location >>

\* C9: loading the record never fails the run, whether the record file is
\* absent, cannot be opened or cannot be parsed.
C9_LoadNeverFailsTheRun == returned_from # "try_load"

\* C10: when the kinds requested hold an unsupported kind anywhere, or the
\* search pattern is malformed, run never gets past find_shaders; and a run
\* that returns from find_shaders returns the discovery error having
\* compiled nothing, written no output and neither read nor written the
\* record file.
C10_DiscoveryFailureHasNoSideEffect ==
    /\ []((\/ \E n \in 1..Len(instructions.to_compile) :
                instructions.to_compile[n] \notin {"Vertex", "Fragment", "Compute"}
           \/ Len(instructions.to_compile) > 0 /\ instructions.search_root = "sha[ders")
          => (pc \in {"idle", "find_shaders"}
              \/ (pc = "done" /\ returned_from = "find_shaders")))
    /\ [][(pc = "find_shaders" /\ pc' = "done") =>
            /\ returned_from' = "find_shaders"
            /\ IsErr(result')
            /\ result'.err.kind \in {"UnsupportedKind", "BadGlobPattern", "GlobTraversal"}
            /\ record_file' = record_file
            /\ trace'.written = << >>
            /\ trace' = NoTrace]_vars

C10_Witness ==
    /\ pc = "done"
    /\ returned_from = "find_shaders"
    /\ result.err.kind = "UnsupportedKind"
    /\ Len(instructions.to_compile) = 2
    /\ instructions.to_compile[1] = "Vertex"
    /\ record_file.state = "corrupt"

\* The sources whose output this run has written.
WrittenSources == {trace.written[n].artifact : n \in 1..Len(trace.written)}

LoggedPaths == {trace.logged[n] : n \in 1..Len(trace.logged)}

\* The paths that have an entry in the record file.
FilePaths == {b[1] : b \in record_file.bytes}

\* C11: the record file starts without entries and a run that writes it adds
\* only paths that this run compiled and whose output it wrote; the record in
\* memory holds only paths of the record file and paths logged by this run;
\* a path logged by a run was compiled and written by that run, and a
\* candidate whose compilation or output write failed is not logged by it.
\* Hence every path in the record, in memory or in the record file, was
\* compiled and written in that run or an earlier one.
C11_RecordedWasCompiledAndWritten ==
    /\ [](/\ DOMAIN record.modified_times \subseteq FilePaths \cup LoggedPaths
          /\ LoggedPaths \subseteq WrittenSources
          /\ \A p \in LoggedPaths :
               \E n \in 1..Len(compilation_results) :
                  IsOk(compilation_results[n]) /\ compilation_results[n].val.location = p
          /\ \A n \in FailedIndexes : to_compile[n].location \notin LoggedPaths
          /\ (pc = "done" /\ returned_from = "write_output") =>
                to_compile[idx].location \notin LoggedPaths)
    /\ [][{b[1] : b \in record_file'.bytes} \subseteq
            FilePaths \cup {trace'.written[n].artifact : n \in 1..Len(trace'.written)}]_vars

\* A second run in which a candidate fails again and stays out of the
\* record, which holds the entry of a source produced by the run before.
C11_Witness ==
    /\ prev.valid
    /\ pc = "done"
    /\ returned_from = "end"
    /\ Len(to_compile) = 1
    /\ IsErr(compilation_results[1])
    /\ ~HasEntry(record, to_compile[1].location)
    /\ trace.written = << >>
    /\ \E p \in DOMAIN record.modified_times : << p, record.modified_times[p] >> \in record_file.bytes

\* C12: the outputs a run writes for distinct candidates have distinct
\* destination paths below the output root.
C12_DistinctCandidatesDistinctDestinations ==
    \A i, j \in 1..Len(trace.written) :
        trace.written[i].artifact # trace.written[j].artifact =>
            trace.written[i].dest # trace.written[j].dest

\* C13: the time a run logs for a path is the modification time the source
\* had when the run read it for compilation.
C13_LoggedTimeIsTimeAtRead ==
    \A n \in 1..Len(trace.attempted) :
        trace.attempted[n] \in LoggedPaths =>
            record.modified_times[trace.attempted[n]] = trace.read_at[n]

\* C14: when the file of a discovered candidate is no longer on disk at the
\* filter step, check_against_record fails and run returns its error,
\* whether or not the record has an entry for the candidate.
C14_MissingCandidateFailsTheFilter ==
    [][(/\ pc = "check_against_record"
        /\ pc' # pc
        /\ \E n \in 1..Len(compile_candidates) :
              mtime[compile_candidates[n].location] = Absent)
       => (/\ pc' = "done"
           /\ returned_from' = "check_against_record"
           /\ IsErr(result'))]_vars

\* C15: when writing the output of a compiled candidate fails, run returns
\* that I/O error at once, whatever the failure policy and whatever other
\* candidates did; the candidate is not logged and its record entry, if any,
\* is the one loaded; only candidates before it have had their output written.
C15_OutputWriteFailureEndsTheRun ==
    trace.write_failed =>
        /\ pc = "done"
        /\ returned_from = "write_output"
        /\ result = Err(Error("Io"))
        /\ IsOk(compilation_results[idx])
        /\ to_compile[idx].location \notin LoggedPaths
        /\ HasEntry(record, to_compile[idx].location) =>
              << to_compile[idx].location, record.modified_times[to_compile[idx].location] >>
                 \in record_file.bytes
        /\ WrittenSources \subseteq {to_compile[n].location : n \in 1..(idx - 1)}

\* A best-effort run whose first output write fails while a later candidate
\* has compiled too.
C15_Witness ==
    /\ trace.write_failed
    /\ ~instructions.compilation_error_terminates
    /\ Len(to_compile) = 2
    /\ idx = 1
    /\ IsOk(compilation_results[2])
    /\ trace.written = << >>
    /\ result = Err(Error("Io"))

FilterReturned ==
    \/ pc \in {"compiler_new", "compile", "write_outputs", "record_write", "panicked"}
    \/ pc = "done" /\ returned_from \notin {"find_shaders", "try_load", "check_against_record"}

\* C17: when check_against_record returns an empty list, run returns Ok
\* straight away: the compiler is not initialised, no source is read or
\* compiled and no output is written.
C17_NothingStaleReturnsBeforeCompiler ==
    (FilterReturned /\ Len(to_compile) = 0) =>
        /\ pc = "done"
        /\ returned_from = "nothing_to_compile"
        /\ result = Ok("unit")
        /\ trace.compiler_inits = 0
        /\ trace.attempted = << >>
        /\ trace.invoked = << >>
        /\ trace.written = << >>

\* A run that loaded a record, found candidates and none of them stale.
C17_Witness ==
    /\ pc = "done"
    /\ returned_from = "nothing_to_compile"
    /\ Len(compile_candidates) > 0
    /\ trace.record_reads = 1
    /\ trace.compiler_inits = 0
    /\ result = Ok("unit")

\* The place of the first occurrence of kind k in list l.
FirstIndex(l, k) == CHOOSE n \in 1..Len(l) : l[n] = k /\ \A m \in 1..(n - 1) : l[m] # k

\* C18: deduplicate_kinds keeps each requested kind once, in the order of
\* the first occurrences; the candidates discovered hold no (path, kind)
\* pair twice and come kind by kind in that order.
C18_KindsScannedOnceInFirstOccurrenceOrder ==
    LET kinds == instructions.to_compile
        out == deduplicate_kinds(kinds)
    IN
    /\ {out[n] : n \in 1..Len(out)} = {kinds[n] : n \in 1..Len(kinds)}
    /\ \A i, j \in 1..Len(out) :
          i < j => out[i] # out[j] /\ FirstIndex(kinds, out[i]) < FirstIndex(kinds, out[j])
    /\ \A i, j \in 1..Len(compile_candidates) :
          i < j =>
            /\ compile_candidates[i] # compile_candidates[j]
            /\ FirstIndex(kinds, compile_candidates[i].shader_kind)
                  <= FirstIndex(kinds, compile_candidates[j].shader_kind)

\* A request that repeats its first kind after another one has found one
\* file of each kind.
C18_Witness ==
    /\ instructions.to_compile = << "Vertex", "Fragment", "Vertex" >>
    /\ pc = "try_load"
    /\ Len(compile_candidates) = 2
    /\ compile_candidates[1].shader_kind = "Vertex"
    /\ compile_candidates[2].shader_kind = "Fragment"

\* C19: when shaderc::Compiler::new() fails, the run is aborted there: it
\* returns nothing, no candidate has been read or compiled, no output and no
\* record file has been written by it.
C19_CompilerInitFailureAborts ==
    trace.init_failed =>
        /\ pc = "panicked"
        /\ returned_from = "compiler_new"
        /\ result = NoResult
        /\ trace.attempted = << >>
        /\ trace.invoked = << >>
        /\ compilation_results = << >>
        /\ trace.written = << >>
        /\ trace.record_writes = 0

\* A later run is aborted with two stale candidates; the record file is the
\* one an earlier run wrote.
C19_Witness ==
    /\ trace.init_failed
    /\ pc = "panicked"
    /\ prev.valid
    /\ Len(to_compile) = 2
    /\ record_file.state = "valid"
    /\ trace.record_writes = 0

====
